---- MODULE Spec2Model ----
(***************************************************************************)
(* State-machine model of src/src/proxy_interceptor.rs: the typestate      *)
(* AcceleratorConfigBuilder, ProxyInterceptor::new and the per-request     *)
(* rewrite ProxyInterceptor::modify_before_transmit.                       *)
(*                                                                         *)
(* A string is a sequence of characters (one-character strings; "LF" is    *)
(* the line-feed character).  An Option / Result is a sequence of length   *)
(* 0 (None / Err) or 1 (Some / Ok).  A number wider than 31 bits (u64      *)
(* seconds, u128 milliseconds) is a sequence of base-1000 limbs, most      *)
(* significant first, without leading zero limbs (zero is <<0>>).          *)
(***************************************************************************)
EXTENDS Integers, Sequences, FiniteSets, TLC

VARIABLES
    builder,      \* Option: the live AcceleratorConfigBuilder<T> value
    config,       \* Option: the AcceleratorConfig returned by ttl()
    interceptor,  \* Option: the registered ProxyInterceptor
    calls,        \* history: the builder methods applied, with their arguments
    request,      \* request[r]: the HTTP request of in-flight request r
    pc,           \* pc[r]: position of r's modify_before_transmit invocation
    requested,    \* requested[r]: the local `requested` of r's invocation
    invocations,  \* invocations[r]: how often the hook was started on r
    original,     \* history: request[r] as signed, before any interception
    entry,        \* history: request[r] when the current invocation started
    first         \* history: request[r] when the first invocation returned Ok

vars == <<builder, config, interceptor, calls, request, pc, requested,
          invocations, original, entry, first>>

-----------------------------------------------------------------------------
(* Bounds *)

NumRequests == 2
MaxInvocations == 4

Requests == 1..NumRequests

-----------------------------------------------------------------------------
(* Strings *)

Https == <<"h", "t", "t", "p", "s", ":", "/", "/">>
DdbSeg == <<"/", "d", "d", "b", "/">>
CacheSeg == <<"/", "c", "a", "c", "h", "e">>

HasPrefix(s, p) == Len(s) >= Len(p) /\ SubSeq(s, 1, Len(p)) = p

\* Characters the URI parser and the header-value constructor refuse.
UriInvalidChars == {" ", "LF"}
HeaderInvalidChars == {"LF"}

\* Uri::try_from(String): an absolute URI needs a scheme, a non-empty
\* authority, and only URI characters.
ValidUri(s) ==
    /\ HasPrefix(s, Https)
    /\ Len(s) > Len(Https)
    /\ s[Len(Https) + 1] \notin {"/", "?", "#"}
    /\ \A i \in 1..Len(s) : s[i] \notin UriInvalidChars

\* HeaderValue::try_from(String): no control characters.
ValidHeaderValue(v) == \A i \in 1..Len(v) : v[i] \notin HeaderInvalidChars

-----------------------------------------------------------------------------
(* Wide unsigned numbers, base-1000 limbs *)

LIMB == 1000
MILLIS_PER_SEC == 1000
NANOS_PER_MILLI == 1000000

U32_MAX == <<4, 294, 967, 295>>
U64_MAX == <<18, 446, 744, 73, 709, 551, 615>>

RECURSIVE LexLess(_, _)
LexLess(a, b) ==
    IF a = <<>> THEN FALSE
    ELSE IF Head(a) # Head(b) THEN Head(a) < Head(b)
    ELSE LexLess(Tail(a), Tail(b))

NumLess(a, b) ==
    \/ Len(a) < Len(b)
    \/ Len(a) = Len(b) /\ LexLess(a, b)

\* Ord::min
NumMin(a, b) == IF NumLess(b, a) THEN b ELSE a

\* n * k + c, for 0 <= k <= 1000 and 0 <= c < 1000
RECURSIVE MulAdd(_, _, _)
MulAdd(n, k, c) ==
    IF n = <<>> THEN (IF c = 0 THEN <<>> ELSE <<c>>)
    ELSE LET v == n[Len(n)] * k + c
         IN  IF Len(n) = 1 /\ v = 0 THEN <<0>>
             ELSE MulAdd(SubSeq(n, 1, Len(n) - 1), k, v \div LIMB) \o <<v % LIMB>>

\* Duration::as_millis: secs as u128 * 1000 + (nanos / 1_000_000) as u128
as_millis(d) == MulAdd(d.secs, MILLIS_PER_SEC, d.nanos \div NANOS_PER_MILLI)

Digit(k) == <<"0", "1", "2", "3", "4", "5", "6", "7", "8", "9">>[k + 1]

\* the decimal digits of one limb, without and with zero padding
LimbDigits(k) ==
    IF k < 10 THEN <<Digit(k)>>
    ELSE IF k < 100 THEN <<Digit(k \div 10), Digit(k % 10)>>
    ELSE <<Digit(k \div 100), Digit((k \div 10) % 10), Digit(k % 10)>>

LimbDigitsPadded(k) == <<Digit(k \div 100), Digit((k \div 10) % 10), Digit(k % 10)>>

RECURSIVE PaddedDigits(_)
PaddedDigits(n) ==
    IF n = <<>> THEN <<>> ELSE LimbDigitsPadded(Head(n)) \o PaddedDigits(Tail(n))

\* u128::to_string
to_string(n) == LimbDigits(Head(n)) \o PaddedDigits(Tail(n))

-----------------------------------------------------------------------------
(* Inputs *)

CacheNames == { <<>>, <<"o", "r", "d">> }
HostNames == { <<>>, <<"m", ".", "i", "o">>, <<"m", " ", "i", "o">> }
AuthTokens == { <<"t", "k", "n">>, <<"t", "LF", "k">> }
Durations ==
    { [secs |-> <<0>>, nanos |-> 999999],
      [secs |-> <<60>>, nanos |-> 0],
      [secs |-> <<1>>, nanos |-> 5000000],
      [secs |-> <<4, 294, 967>>, nanos |-> 295999999],
      [secs |-> <<4, 294, 967>>, nanos |-> 296000000],
      [secs |-> U64_MAX, nanos |-> 999999999] }

HeaderNames == {"x-uri", "x-momento-authorization", "x-ttl-millis", "authorization"}
ProxyHeaders == {"x-uri", "x-momento-authorization", "x-ttl-millis"}

DynamoUri == Https \o <<"d", "b", "/">>
OtherUri == Https \o <<"d", "b", "/", "x">>

\* Signed requests as the client pipeline hands them to the hook: one plain,
\* one that already carries the three proxy headers (x-uri twice).
SignedRequests ==
    { [method |-> "POST", uri |-> DynamoUri, body |-> "GetItem",
       headers |-> [h \in HeaderNames |->
                       IF h = "authorization" THEN << <<"s", "1">> >> ELSE <<>>]],
      [method |-> "POST", uri |-> OtherUri, body |-> "Query",
       headers |-> [h \in HeaderNames |->
                       CASE h = "authorization" -> << <<"s", "2">> >>
                         [] h = "x-uri" -> << <<"u">>, <<"v">> >>
                         [] h = "x-momento-authorization" -> << <<"o", "l", "d">> >>
                         [] OTHER -> << <<"7">> >>]] }

-----------------------------------------------------------------------------
(* Configuration builder *)

\* accelerator_config()
accelerator_config == [stage |-> "WantsCacheName"]

\* variant: cache_name declared for every stage type
HasMethodAnyStage(stage, method) ==
    \/ method = "cache_name"
    \/ stage = "WantsMomentoHost" /\ method = "momento_hostname"
    \/ stage = "WantsAuthToken" /\ method = "auth_token"
    \/ stage = "WantsTtl" /\ method = "ttl"

\* which impl block declares `method`: the stage type it is callable on
HasMethod(stage, method) ==
    \/ stage = "WantsCacheName" /\ method = "cache_name"
    \/ stage = "WantsMomentoHost" /\ method = "momento_hostname"
    \/ stage = "WantsAuthToken" /\ method = "auth_token"
    \/ stage = "WantsTtl" /\ method = "ttl"

cache_name(self, name) == [stage |-> "WantsMomentoHost", cache_name |-> name]

\* variant: host and cache name in each other's place
momento_hostname_swapped(self, uri) ==
    [stage |-> "WantsAuthToken",
     uri |-> Https \o self.cache_name \o DdbSeg \o uri \o CacheSeg]

momento_hostname(self, uri) ==
    [stage |-> "WantsAuthToken",
     uri |-> Https \o uri \o DdbSeg \o self.cache_name \o CacheSeg]

auth_token(self, token) ==
    [stage |-> "WantsTtl", uri |-> self.uri, auth_token |-> token]

\* variant: the duration is clamped to u32::MAX milliseconds when stored
ttl_saturating(self, d) ==
    [uri |-> self.uri,
     auth_token |-> self.auth_token,
     ttl |-> IF NumLess(U32_MAX, as_millis(d))
             THEN [secs |-> <<4, 294, 967>>, nanos |-> 295000000]
             ELSE d]

ttl(self, d) == [uri |-> self.uri, auth_token |-> self.auth_token, ttl |-> d]

\* variant: the milliseconds are rendered without the min
new_unclamped(proxy_uri, token, d) ==
    [proxy_uri |-> proxy_uri,
     auth_token |-> token,
     ttl |-> to_string(as_millis(d))]

\* ProxyInterceptor::new
new(proxy_uri, token, d) ==
    [proxy_uri |-> proxy_uri,
     auth_token |-> token,
     ttl |-> to_string(NumMin(as_millis(d), U32_MAX))]

Callable(method) == builder # <<>> /\ HasMethod(builder[1].stage, method)

AcceleratorConfigCall ==
    /\ builder = <<>> /\ calls = <<>>
    /\ builder' = <<accelerator_config>>
    /\ UNCHANGED <<config, interceptor, calls, request, pc, requested,
                   invocations, original, entry, first>>

CacheNameCall(name) ==
    /\ Callable("cache_name")
    /\ builder' = <<cache_name(builder[1], name)>>
    /\ calls' = Append(calls, [op |-> "cache_name", arg |-> name])
    /\ UNCHANGED <<config, interceptor, request, pc, requested,
                   invocations, original, entry, first>>

MomentoHostnameCall(host) ==
    /\ Callable("momento_hostname")
    /\ builder' = <<momento_hostname(builder[1], host)>>
    /\ calls' = Append(calls, [op |-> "momento_hostname", arg |-> host])
    /\ UNCHANGED <<config, interceptor, request, pc, requested,
                   invocations, original, entry, first>>

AuthTokenCall(token) ==
    /\ Callable("auth_token")
    /\ builder' = <<auth_token(builder[1], token)>>
    /\ calls' = Append(calls, [op |-> "auth_token", arg |-> token])
    /\ UNCHANGED <<config, interceptor, request, pc, requested,
                   invocations, original, entry, first>>

TtlCall(d) ==
    /\ Callable("ttl")
    /\ config' = <<ttl(builder[1], d)>>
    /\ builder' = <<>>
    /\ calls' = Append(calls, [op |-> "ttl", arg |-> d])
    /\ UNCHANGED <<interceptor, request, pc, requested,
                   invocations, original, entry, first>>

\* with_momento_accelerator: the config is moved into the interceptor
WithMomentoAccelerator ==
    /\ config # <<>>
    /\ interceptor = <<>>
    /\ interceptor' = <<new(config[1].uri, config[1].auth_token, config[1].ttl)>>
    /\ config' = <<>>
    /\ UNCHANGED <<builder, calls, request, pc, requested,
                   invocations, original, entry, first>>

-----------------------------------------------------------------------------
(* Request interceptor *)

\* variant: a conversion that accepts every string
try_into_lenient(s) == <<s>>

\* String -> Uri conversion; the Uri keeps the string it was parsed from
try_into(s) == IF ValidUri(s) THEN <<s>> ELSE <<>>

\* Headers::insert: replaces every value stored under `name`; the Option is
\* empty when the value is no legal header value (the call panics)
insert(headers, name, value) ==
    IF ValidHeaderValue(value) THEN <<[headers EXCEPT ![name] = <<value>>]>> ELSE <<>>

\* variant: one slot shared by all invocations
requested_shared(locals, r) == locals[1]

\* the local `requested`, owned by one invocation
requested_local(locals, r) == locals[r]

\* variant: the target is assigned before it is validated
set_uri_assign_first(self, req) ==
    [panic |-> try_into(self.proxy_uri) = <<>>,
     request |-> [req EXCEPT !.uri = self.proxy_uri]]

\* lines 156-160: parse the proxy URI, then assign it
set_uri(self, req) ==
    LET parsed == try_into(self.proxy_uri)
    IN  IF parsed = <<>> THEN [panic |-> TRUE, request |-> req]
        ELSE [panic |-> FALSE, request |-> [req EXCEPT !.uri = parsed[1]]]

InsertResult(req, inserted) ==
    IF inserted = <<>> THEN [panic |-> TRUE, request |-> req]
    ELSE [panic |-> FALSE, request |-> [req EXCEPT !.headers = inserted[1]]]

\* variant: x-uri takes the request's URI as it is at the insert
insert_x_uri_current(req, uri_string) ==
    InsertResult(req, insert(req.headers, "x-uri", req.uri))

\* variant: an x-uri header already present is kept
insert_x_uri_once(req, uri_string) ==
    IF req.headers["x-uri"] # <<>> THEN [panic |-> FALSE, request |-> req]
    ELSE InsertResult(req, insert(req.headers, "x-uri", uri_string))

\* lines 163-166
insert_x_uri(req, uri_string) ==
    InsertResult(req, insert(req.headers, "x-uri", uri_string))

\* variant: the token is written under the signature's header name
insert_auth_as_authorization(self, req) ==
    InsertResult(req, insert(req.headers, "authorization", self.auth_token))

\* lines 169-172
insert_auth(self, req) ==
    InsertResult(req, insert(req.headers, "x-momento-authorization", self.auth_token))

\* lines 175-178
insert_ttl(self, req) ==
    InsertResult(req, insert(req.headers, "x-ttl-millis", self.ttl))

\* the whole hook on one request, run alone from start to end
modify_before_transmit(self, req) ==
    LET captured == req.uri
        s1 == set_uri(self, req)
        s2 == insert_x_uri(s1.request, captured)
        s3 == insert_auth(self, s2.request)
        s4 == insert_ttl(self, s3.request)
    IN  IF s1.panic THEN [result |-> "panic", request |-> s1.request]
        ELSE IF s2.panic THEN [result |-> "panic", request |-> s2.request]
        ELSE IF s3.panic THEN [result |-> "panic", request |-> s3.request]
        ELSE IF s4.panic THEN [result |-> "panic", request |-> s4.request]
        ELSE [result |-> "Ok", request |-> s4.request]

RECURSIVE Total(_, _)
Total(f, n) == IF n = 0 THEN 0 ELSE f[n] + Total(f, n - 1)

Advance(r, outcome, nextPc) ==
    /\ request' = [request EXCEPT ![r] = outcome.request]
    /\ pc' = [pc EXCEPT ![r] = IF outcome.panic THEN "panicked" ELSE nextPc]

\* line 150: the pipeline calls the hook on request r; `requested` is captured
Capture(r) ==
    /\ interceptor # <<>>
    /\ pc[r] \in {"idle", "done"}
    /\ Total(invocations, NumRequests) < MaxInvocations
    /\ requested' = [requested EXCEPT ![r] = request[r].uri]
    /\ invocations' = [invocations EXCEPT ![r] = @ + 1]
    /\ entry' = [entry EXCEPT ![r] = <<request[r]>>]
    /\ pc' = [pc EXCEPT ![r] = "captured"]
    /\ UNCHANGED <<builder, config, interceptor, calls, request, original, first>>

SetUri(r) ==
    /\ pc[r] = "captured"
    /\ Advance(r, set_uri(interceptor[1], request[r]), "uri_set")
    /\ UNCHANGED <<builder, config, interceptor, calls, requested,
                   invocations, original, entry, first>>

InsertXUri(r) ==
    /\ pc[r] = "uri_set"
    /\ Advance(r, insert_x_uri(request[r], requested_local(requested, r)), "x_uri_set")
    /\ UNCHANGED <<builder, config, interceptor, calls, requested,
                   invocations, original, entry, first>>

InsertAuth(r) ==
    /\ pc[r] = "x_uri_set"
    /\ Advance(r, insert_auth(interceptor[1], request[r]), "auth_set")
    /\ UNCHANGED <<builder, config, interceptor, calls, requested,
                   invocations, original, entry, first>>

\* lines 175-180: the last insert, then Ok(())
InsertTtl(r) ==
    /\ pc[r] = "auth_set"
    /\ LET outcome == insert_ttl(interceptor[1], request[r])
       IN  /\ Advance(r, outcome, "done")
           /\ first' = IF ~outcome.panic /\ first[r] = <<>>
                       THEN [first EXCEPT ![r] = <<outcome.request>>]
                       ELSE first
    /\ UNCHANGED <<builder, config, interceptor, calls, requested,
                   invocations, original, entry>>

-----------------------------------------------------------------------------

Init ==
    /\ builder = <<>>
    /\ config = <<>>
    /\ interceptor = <<>>
    /\ calls = <<>>
    /\ request \in [Requests -> SignedRequests]
    /\ original = request
    /\ pc = [r \in Requests |-> "idle"]
    /\ requested = [r \in Requests |-> <<>>]
    /\ invocations = [r \in Requests |-> 0]
    /\ entry = [r \in Requests |-> <<>>]
    /\ first = [r \in Requests |-> <<>>]

Next ==
    \/ AcceleratorConfigCall
    \/ \E name \in CacheNames : CacheNameCall(name)
    \/ \E host \in HostNames : MomentoHostnameCall(host)
    \/ \E token \in AuthTokens : AuthTokenCall(token)
    \/ \E d \in Durations : TtlCall(d)
    \/ WithMomentoAccelerator
    \/ \E r \in Requests : Capture(r)
    \/ \E r \in Requests : SetUri(r)
    \/ \E r \in Requests : InsertXUri(r)
    \/ \E r \in Requests : InsertAuth(r)
    \/ \E r \in Requests : InsertTtl(r)

Spec == Init /\ [][Next]_vars

-----------------------------------------------------------------------------
(* Properties *)

BuilderOrder == <<"cache_name", "momento_hostname", "auth_token", "ttl">>
StageAfter == <<"WantsMomentoHost", "WantsAuthToken", "WantsTtl">>

\* the arguments the caller supplied, read from the call history
SuppliedCacheName == calls[1].arg
SuppliedHost == calls[2].arg
SuppliedToken == calls[3].arg
SuppliedTtl == calls[4].arg
ExpectedUri == Https \o SuppliedHost \o DdbSeg \o SuppliedCacheName \o CacheSeg

IsDigit(ch) == \E k \in 0..9 : Digit(k) = ch
DigitValue(ch) == CHOOSE k \in 0..9 : Digit(k) = ch

\* the number a decimal string denotes, digit by digit
RECURSIVE ParseDecimal(_)
ParseDecimal(s) ==
    IF s = <<>> THEN <<0>>
    ELSE MulAdd(ParseDecimal(SubSeq(s, 1, Len(s) - 1)), 10, DigitValue(s[Len(s)]))

Saturated == <<"4", "2", "9", "4", "9", "6", "7", "2", "9", "5">>
Sixty == [secs |-> <<60>>, nanos |-> 0]
SixtyThousand == <<"6", "0", "0", "0", "0">>

InvalidTarget == interceptor # <<>> /\ ~ValidUri(interceptor[1].proxy_uri)

\* C1: after a successful modify_before_transmit the request's URI is the
\* configured proxy URI, x-uri holds exactly the URI the request had when the
\* hook started, x-momento-authorization the configured token and
\* x-ttl-millis the TTL string rendered at construction, also when the
\* request already carried those headers.
C1_RewritePostcondition ==
    \A r \in Requests :
        pc[r] = "done" =>
            /\ request[r].uri = ExpectedUri
            /\ request[r].uri = interceptor[1].proxy_uri
            /\ request[r].headers["x-uri"] = <<entry[r][1].uri>>
            /\ request[r].headers["x-momento-authorization"] = <<SuppliedToken>>
            /\ request[r].headers["x-ttl-millis"] = <<interceptor[1].ttl>>

C1_Witness ==
    \E r \in Requests :
        /\ pc[r] = "done"
        /\ invocations[r] = 1
        /\ Len(original[r].headers["x-uri"]) = 2
        /\ request[r].headers["x-uri"] = <<original[r].uri>>

\* C2: the hook never changes the body, the method, or a header other than
\* x-uri, x-momento-authorization and x-ttl-millis.
C2_Frame ==
    \A r \in Requests :
        /\ request[r].body = original[r].body
        /\ request[r].method = original[r].method
        /\ \A h \in HeaderNames \ ProxyHeaders :
               request[r].headers[h] = original[r].headers[h]

C2_Witness ==
    \E r \in Requests :
        /\ pc[r] = "done"
        /\ request[r].uri # original[r].uri
        /\ \A h \in ProxyHeaders : request[r].headers[h] # original[r].headers[h]

\* C3: with a proxy URI that is no valid URI the hook fails at the URI
\* assignment and applies nothing: no invocation gets past that step, and at
\* the failure the request still has its URI and its headers as on entry.
C3_InvalidTargetNotApplied ==
    InvalidTarget =>
        \A r \in Requests :
            /\ pc[r] \in {"idle", "captured", "panicked"}
            /\ pc[r] = "panicked" =>
                   /\ request[r].uri = entry[r][1].uri
                   /\ \A h \in ProxyHeaders :
                          request[r].headers[h] = entry[r][1].headers[h]

C3_Witness ==
    /\ InvalidTarget
    /\ \E r \in Requests :
           pc[r] = "panicked" /\ Len(request[r].headers["x-uri"]) = 2

\* C4: the builder methods are applied in the order cache_name,
\* momento_hostname, auth_token, ttl, each once: the call history is always
\* a prefix of that order, the live stage is the one the history leads to,
\* and a configuration (or interceptor) exists only after all four calls.
C4_StageOrder ==
    /\ Len(calls) <= Len(BuilderOrder)
    /\ \A i \in 1..Len(calls) : calls[i].op = BuilderOrder[i]
    /\ builder # <<>> =>
           /\ Len(calls) < Len(BuilderOrder)
           /\ builder[1].stage =
                  (IF calls = <<>> THEN "WantsCacheName" ELSE StageAfter[Len(calls)])
           /\ config = <<>> /\ interceptor = <<>>
    /\ (config # <<>> \/ interceptor # <<>>) =>
           /\ Len(calls) = Len(BuilderOrder)
           /\ builder = <<>>

C4_Witness == config # <<>> /\ Len(calls) = 4 /\ calls[4].op = "ttl"

\* C5: the interceptor's TTL string is min(d in whole milliseconds, 2^32-1)
\* in base 10 without leading zeros; a longer duration gives "4294967295";
\* it is the value sent as x-ttl-millis.
C5_TtlString ==
    interceptor # <<>> =>
        LET s == interceptor[1].ttl
            millis == as_millis(SuppliedTtl)
        IN  /\ s # <<>>
            /\ \A i \in 1..Len(s) : IsDigit(s[i])
            /\ Len(s) > 1 => s[1] # "0"
            /\ ParseDecimal(s) = NumMin(millis, U32_MAX)
            /\ NumLess(U32_MAX, millis) => s = Saturated
            /\ SuppliedTtl = Sixty => s = SixtyThousand
            /\ \A r \in Requests :
                   pc[r] = "done" => request[r].headers["x-ttl-millis"] = <<s>>

C5_Witness ==
    /\ interceptor # <<>>
    /\ SuppliedTtl.secs = U64_MAX
    /\ interceptor[1].ttl = Saturated
    /\ \E r \in Requests : pc[r] = "done"

\* C6: the proxy URI is "https://" + host + "/ddb/" + cache_name + "/cache"
\* from momento_hostname on, carried unchanged through auth_token and ttl;
\* the token is kept verbatim; the URI is never empty and begins with the
\* scheme, also for an empty host or cache name.
C6_ProxyUri ==
    /\ (builder # <<>> /\ builder[1].stage \in {"WantsAuthToken", "WantsTtl"}) =>
           builder[1].uri = ExpectedUri
    /\ (builder # <<>> /\ builder[1].stage = "WantsTtl") =>
           builder[1].auth_token = SuppliedToken
    /\ config # <<>> =>
           /\ config[1].uri = ExpectedUri
           /\ config[1].auth_token = SuppliedToken
           /\ config[1].uri # <<>>
           /\ HasPrefix(config[1].uri, Https)

C6_Witness ==
    /\ config # <<>>
    /\ SuppliedHost = <<>>
    /\ SuppliedCacheName = <<>>
    /\ config[1].uri = Https \o DdbSeg \o CacheSeg

\* C7 as stated: the TTL held by the AcceleratorConfig returned from ttl()
\* never exceeds 2^32-1 milliseconds.
C7_ConfigTtlSaturated ==
    config # <<>> => ~NumLess(U32_MAX, as_millis(config[1].ttl))

\* C7 amended: ttl() stores the duration unchanged; the saturation happens
\* in ProxyInterceptor::new, so the TTL string of the interceptor never
\* denotes more than 2^32-1.
C7_SaturatedAtInterceptor ==
    /\ config # <<>> => config[1].ttl = SuppliedTtl
    /\ interceptor # <<>> => ~NumLess(U32_MAX, ParseDecimal(interceptor[1].ttl))

C7_Witness ==
    /\ config # <<>>
    /\ NumLess(U32_MAX, as_millis(config[1].ttl))

\* C8: invocations on distinct requests do not interfere: the interceptor's
\* fields never change once constructed, a step of one invocation (a failing
\* one included) changes no other request, and every finished invocation
\* leaves its request as the hook run alone on that request would.
C8_Isolated ==
    \A r \in Requests :
        pc[r] \in {"done", "panicked"} =>
            LET alone == modify_before_transmit(interceptor[1], entry[r][1])
            IN  /\ request[r] = alone.request
                /\ (pc[r] = "done") = (alone.result = "Ok")

C8_InterceptorFrozen == interceptor # <<>> => interceptor' = interceptor

C8_OneRequestPerStep ==
    \A r \in Requests :
        pc'[r] # pc[r] =>
            \A q \in Requests \ {r} : request'[q] = request[q] /\ pc'[q] = pc[q]

C8_NoInterference ==
    /\ []C8_Isolated
    /\ [][C8_InterceptorFrozen]_vars
    /\ [][C8_OneRequestPerStep]_vars

C8_Witness ==
    /\ \E r \in Requests : pc[r] = "done" /\ invocations[r] = 1
    /\ \E q \in Requests : pc[q] \in {"uri_set", "x_uri_set", "auth_set"}

\* C9: a second invocation on the same request leaves x-uri equal to the
\* proxy URI, not to the original URI, while the request URI,
\* x-momento-authorization and x-ttl-millis are as after one invocation.
C9_SecondInvocation ==
    \A r \in Requests :
        (pc[r] = "done" /\ invocations[r] >= 2) =>
            /\ first[r][1].headers["x-uri"] = <<original[r].uri>>
            /\ request[r].headers["x-uri"] = <<interceptor[1].proxy_uri>>
            /\ request[r].headers["x-uri"] # <<original[r].uri>>
            /\ request[r].uri = first[r][1].uri
            /\ request[r].headers["x-momento-authorization"] =
                   first[r][1].headers["x-momento-authorization"]
            /\ request[r].headers["x-ttl-millis"] = first[r][1].headers["x-ttl-millis"]

C9_Witness ==
    \E r \in Requests :
        /\ pc[r] = "done"
        /\ invocations[r] = 2
        /\ request[r] # first[r][1]

\* C10: no builder step and no constructor rejects a malformed proxy URI:
\* every step is enabled for every input and the malformed URI reaches the
\* interceptor; the failure occurs in modify_before_transmit, on every
\* invocation, each confined to its own request.
C10_FailsOnlyAtRequestTime ==
    /\ Callable("cache_name") => \A name \in CacheNames : ENABLED CacheNameCall(name)
    /\ Callable("momento_hostname") =>
           \A host \in HostNames : ENABLED MomentoHostnameCall(host)
    /\ Callable("auth_token") => \A token \in AuthTokens : ENABLED AuthTokenCall(token)
    /\ Callable("ttl") => \A d \in Durations : ENABLED TtlCall(d)
    /\ config # <<>> => ENABLED WithMomentoAccelerator
    /\ InvalidTarget =>
           /\ interceptor[1].proxy_uri = ExpectedUri
           /\ \A r \in Requests :
                  /\ pc[r] \notin {"uri_set", "x_uri_set", "auth_set", "done"}
                  /\ invocations[r] > 0 => pc[r] \in {"captured", "panicked"}
                  /\ pc[r] = "idle" => request[r] = original[r]

C10_Witness ==
    /\ InvalidTarget
    /\ \A r \in Requests : pc[r] = "panicked"

====
